---- MODULE Spec2Model ----
(***************************************************************************)
(* SpleefArenaManager: the arena registry, the bounds of each arena, the   *)
(* tracked broken blocks and their repair, the batched scan for arena      *)
(* markers and the save/load of the registry to world dynamic properties.  *)
(***************************************************************************)
EXTENDS Integers, Sequences, FiniteSets, TLC

VARIABLES
    arenaTags,       \* string[]: the tags, in order of registration
    markerRegistry,  \* Map<string, SpleefObject[]>
    arenaBounds,     \* Map<string, ArenaBounds>
    wpArenaNames,    \* world dynamic property WP_ARENA_NAMES: <<>> when unset, else <<string>>
    wpArenaMarkers,  \* world dynamic properties WP_ARENA_MARKERS_<tag>, by tag, the set ones only
    trackedBlocks,   \* TrackedBlock[]; uid is not a field of the program: it names the element
    restored,        \* by uid of every tracked block ever created, the setType calls made for it
    pendingUpdates,  \* the callbacks of update() that system.run holds and has not run yet
    now,             \* Date.now()
    world,           \* the type of the blocks that have one set, by location; air elsewhere
    unloaded,        \* the locations at which getBlock returns undefined
    scans,           \* by call of findArenasForLocation, the variables its scanBatch closes over
    logged,          \* what the last step wrote to the log: a set of [level, msg]
    thrown           \* whether the last operation ended by throwing

regVars == <<arenaTags, markerRegistry, arenaBounds>>
worldVars == <<wpArenaNames, wpArenaMarkers>>
repairVars == <<trackedBlocks, restored, pendingUpdates>>
envVars == <<now, world, unloaded>>
vars == <<arenaTags, markerRegistry, arenaBounds, wpArenaNames, wpArenaMarkers,
          trackedBlocks, restored, pendingUpdates, now, world, unloaded, scans, logged, thrown>>

-----------------------------------------------------------------------------
(* JavaScript numbers and undefined.  A coordinate is an integer, one of the *)
(* infinities, NaN, or undefined (a missing array element).                  *)

Num(n) == [k |-> "num", v |-> n]
PosInfinity == [k |-> "inf", v |-> 1]
NegInfinity == [k |-> "inf", v |-> -1]
NaN == [k |-> "nan", v |-> 0]
Undefined == [k |-> "undef", v |-> 0]

IsNumeric(a) == a.k \in {"num", "inf"}

\* a < b of JavaScript: false as soon as one side is NaN or undefined
JsLt(a, b) ==
    /\ IsNumeric(a)
    /\ IsNumeric(b)
    /\ \/ a.k = "num" /\ b.k = "num" /\ a.v < b.v
       \/ a.k = "num" /\ b = PosInfinity
       \/ a = NegInfinity /\ b.k = "num"
       \/ a = NegInfinity /\ b = PosInfinity

JsGt(a, b) == JsLt(b, a)

JsLe(a, b) == IsNumeric(a) /\ IsNumeric(b) /\ (a = b \/ JsLt(a, b))

JsGe(a, b) == JsLe(b, a)

Vec(x, y, z) == [x |-> Num(x), y |-> Num(y), z |-> Num(z)]

-----------------------------------------------------------------------------
(* Strings are sequences of tokens: the delimiters "#" and ",", the sign   *)
(* "-", the decimal digits, and atoms that hold no delimiter.              *)

Digits == <<"0", "1", "2", "3", "4", "5", "6", "7", "8", "9">>

RECURSIVE NatStr(_)
NatStr(n) == IF n < 10 THEN <<Digits[n + 1]>> ELSE NatStr(n \div 10) \o <<Digits[(n % 10) + 1]>>

\* `${v}` of a template literal
NumStr(a) ==
    CASE a.k = "num" -> IF a.v < 0 THEN <<"-">> \o NatStr(0 - a.v) ELSE NatStr(a.v)
      [] a.k = "inf" -> IF a.v < 0 THEN <<"-", "Infinity">> ELSE <<"Infinity">>
      [] a.k = "nan" -> <<"NaN">>
      [] OTHER -> <<"undefined">>

vectorKey(v) == NumStr(v.x) \o <<",">> \o NumStr(v.y) \o <<",">> \o NumStr(v.z)

IsDigit(c) == \E i \in 1..10 : Digits[i] = c

DigitValue(c) == (CHOOSE i \in 1..10 : Digits[i] = c) - 1

RECURSIVE NatValue(_)
NatValue(s) == IF s = <<>> THEN 0 ELSE 10 * NatValue(SubSeq(s, 1, Len(s) - 1)) + DigitValue(s[Len(s)])

AllDigits(s) == s # <<>> /\ \A i \in 1..Len(s) : IsDigit(s[i])

\* Number(s): the empty string is 0, a decimal integer is its value, anything
\* else over these tokens is NaN
Number(s) ==
    CASE s = <<>> -> Num(0)
      [] AllDigits(s) -> Num(NatValue(s))
      [] s # <<>> /\ s[1] = "-" /\ AllDigits(Tail(s)) -> Num(0 - NatValue(Tail(s)))
      [] s = <<"Infinity">> -> PosInfinity
      [] s = <<"-", "Infinity">> -> NegInfinity
      [] OTHER -> NaN

\* s.split(d): a sequence of strings, <<"">> for the empty string
RECURSIVE Split(_, _)
Split(s, d) ==
    IF \E i \in 1..Len(s) : s[i] = d
    THEN LET i == CHOOSE i \in 1..Len(s) : s[i] = d /\ \A j \in 1..(i - 1) : s[j] # d
         IN <<SubSeq(s, 1, i - 1)>> \o Split(SubSeq(s, i + 1, Len(s)), d)
    ELSE <<s>>

\* ss.join(d): the empty string for an empty array
RECURSIVE Join(_, _)
Join(ss, d) ==
    IF ss = <<>> THEN <<>>
    ELSE IF Len(ss) = 1 THEN ss[1]
    ELSE ss[1] \o <<d>> \o Join(Tail(ss), d)

-----------------------------------------------------------------------------
(* Maps *)

EmptyMap == [t \in {} |-> <<>>]

MapSet(m, key, val) == [t \in DOMAIN m \cup {key} |-> IF t = key THEN val ELSE m[t]]

Includes(s, e) == \E i \in 1..Len(s) : s[i] = e

\* findIndex, 1-based; 0 when no element matches
FindIndexById(registry, id) ==
    IF \E i \in 1..Len(registry) : registry[i].id = id
    THEN CHOOSE i \in 1..Len(registry) :
            /\ registry[i].id = id
            /\ \A j \in 1..(i - 1) : registry[j].id # id
    ELSE 0

\* RemoveAt that removes all from i on: splice without its count
RemoveAtToEnd(s, i) == SubSeq(s, 1, i - 1)

RemoveAt(s, i) == SubSeq(s, 1, i - 1) \o SubSeq(s, i + 1, Len(s))

LogEntry(level, msg) == [level |-> level, msg |-> msg]

-----------------------------------------------------------------------------
(* The registry operations, as functions of the registry R =               *)
(* [tags, markers, bounds, log].                                           *)

newBounds ==
    [left |-> PosInfinity, right |-> NegInfinity,
     front |-> PosInfinity, back |-> NegInfinity,
     top |-> NegInfinity, bottom |-> PosInfinity]

\* BoundsStep with the top taken from loc.z
BoundsStepTopFromZ(bounds, loc) ==
    [left   |-> IF JsLt(loc.x, bounds.left)   THEN loc.x ELSE bounds.left,
     right  |-> IF JsGt(loc.x, bounds.right)  THEN loc.x ELSE bounds.right,
     bottom |-> IF JsLt(loc.y, bounds.bottom) THEN loc.y ELSE bounds.bottom,
     top    |-> IF JsGt(loc.z, bounds.top)    THEN loc.z ELSE bounds.top,
     front  |-> IF JsLt(loc.z, bounds.front)  THEN loc.z ELSE bounds.front,
     back   |-> IF JsGt(loc.z, bounds.back)   THEN loc.z ELSE bounds.back]

\* one round of the forEach of updateBoundsForArena
BoundsStep(bounds, loc) ==
    [left   |-> IF JsLt(loc.x, bounds.left)   THEN loc.x ELSE bounds.left,
     right  |-> IF JsGt(loc.x, bounds.right)  THEN loc.x ELSE bounds.right,
     bottom |-> IF JsLt(loc.y, bounds.bottom) THEN loc.y ELSE bounds.bottom,
     top    |-> IF JsGt(loc.y, bounds.top)    THEN loc.y ELSE bounds.top,
     front  |-> IF JsLt(loc.z, bounds.front)  THEN loc.z ELSE bounds.front,
     back   |-> IF JsGt(loc.z, bounds.back)   THEN loc.z ELSE bounds.back]

RECURSIVE BoundsFold(_, _, _)
BoundsFold(registry, i, bounds) ==
    IF i > Len(registry) THEN bounds
    ELSE BoundsFold(registry, i + 1, BoundsStep(bounds, registry[i].location))

updateBoundsForArena(R, arenaTag) ==
    IF ~Includes(R.tags, arenaTag)
    THEN [R EXCEPT !.log = @ \cup {LogEntry("Warning", "update bounds: unknown arena")}]
    ELSE LET bounds == IF arenaTag \in DOMAIN R.markers
                       THEN BoundsFold(R.markers[arenaTag], 1, newBounds)
                       ELSE newBounds
         IN [R EXCEPT !.bounds = MapSet(@, arenaTag, bounds)]

\* UpsertMarker that pushes without looking for the id
UpsertMarkerAlwaysPush(registry, tag, location, id) ==
    Append(registry, [location |-> location, id |-> id, tag |-> tag])

\* the upsert of registerArenaMarker on the marker array of the tag, when there is one
UpsertMarker(registry, tag, location, id) ==
    LET index == FindIndexById(registry, id)
    IN IF index = 0
       THEN Append(registry, [location |-> location, id |-> id, tag |-> tag])
       ELSE [registry EXCEPT ![index].location = location]

registerArenaMarker(R, tag, location, id, updateBounds) ==
    LET R0 == [R EXCEPT !.log = @ \cup {LogEntry("Verbose", "registering marker")}]
        R1 == IF ~Includes(R0.tags, tag)
              THEN [R0 EXCEPT !.tags = Append(@, tag), !.markers = MapSet(@, tag, <<>>)]
              ELSE R0
        R2 == IF tag \in DOMAIN R1.markers
              THEN [R1 EXCEPT !.markers[tag] = UpsertMarker(@, tag, location, id)]
              ELSE R1
    IN IF updateBounds THEN updateBoundsForArena(R2, tag) ELSE R2

\* removeArenaMarker that leaves the stored bounds as they are
removeArenaMarkerKeepsBounds(R, tag, id) ==
    IF ~Includes(R.tags, tag)
    THEN [R EXCEPT !.log = @ \cup {LogEntry("Verbose", "remove marker: unknown arena")}]
    ELSE IF tag \in DOMAIN R.markers /\ FindIndexById(R.markers[tag], id) # 0
         THEN [R EXCEPT !.markers[tag] = RemoveAt(@, FindIndexById(@, id))]
         ELSE R

removeArenaMarker(R, tag, id) ==
    IF ~Includes(R.tags, tag)
    THEN [R EXCEPT !.log = @ \cup {LogEntry("Verbose", "remove marker: unknown arena")}]
    ELSE LET R1 == IF tag \in DOMAIN R.markers /\ FindIndexById(R.markers[tag], id) # 0
                   THEN [R EXCEPT !.markers[tag] = RemoveAt(@, FindIndexById(@, id))]
                   ELSE R
         IN updateBoundsForArena(R1, tag)

inBounds(bounds, loc) ==
    /\ JsGe(loc.x, bounds.left)
    /\ JsLe(loc.x, bounds.right)
    /\ JsGe(loc.y, bounds.bottom)
    /\ JsLe(loc.y, bounds.top)
    /\ JsGe(loc.z, bounds.front)
    /\ JsLe(loc.z, bounds.back)

-----------------------------------------------------------------------------
(* Tracked blocks and their repair *)

repairDelay == 10000

defaultArenaSettings == [autoRepair |-> TRUE, repairDelay |-> repairDelay]

\* the tags whose stored bounds hold the location: the rounds of arenaBounds.forEach that track
ArenasInBounds(bounds, location) == {t \in DOMAIN bounds : inBounds(bounds[t], location)}

\* trackBlockBreak that stops at the first arena in whose bounds the block lies
trackBlockBreakFirstArena(bounds, block, timeNow, nextUid) ==
    [j \in 1..(IF ArenasInBounds(bounds, block.location) = {} THEN 0 ELSE 1) |->
        [blockId |-> block.typeId,
         location |-> block.location,
         brokenAt |-> timeNow,
         rebuildDelay |-> defaultArenaSettings.repairDelay,
         remove |-> FALSE,
         uid |-> nextUid + j - 1]]

\* what trackBlockBreak pushes: one element for each arena in whose bounds the
\* block lies; the elements differ by uid alone, so their order is that of the uids
trackBlockBreak(bounds, block, timeNow, nextUid) ==
    [j \in 1..Cardinality(ArenasInBounds(bounds, block.location)) |->
        [blockId |-> block.typeId,
         location |-> block.location,
         brokenAt |-> timeNow,
         rebuildDelay |-> defaultArenaSettings.repairDelay,
         remove |-> FALSE,
         uid |-> nextUid + j - 1]]

\* RepairElement that rebuilds as soon as the delay is reached
RepairElementAtDelay(S, i, timeNow, missing) ==
    LET x == S.blocks[i]
    IN IF timeNow - x.brokenAt >= x.rebuildDelay
       THEN IF x.location \in missing
            THEN [S EXCEPT !.log = @ \cup {LogEntry("Verbose", "rebuilding block"),
                                           LogEntry("Error", "could not resolve block space to rebuild!")}]
            ELSE [S EXCEPT !.log = @ \cup {LogEntry("Verbose", "rebuilding block"),
                                           LogEntry("Verbose", "setting block type")},
                           !.world = MapSet(@, x.location, x.blockId),
                           !.restored[x.uid] = @ + 1,
                           !.blocks[i].remove = TRUE]
       ELSE S

\* one round of trackedBlocks.forEach in the callback of update, on
\* S = [blocks, world, restored, log]
RepairElement(S, i, timeNow, missing) ==
    LET x == S.blocks[i]
    IN IF timeNow - x.brokenAt > x.rebuildDelay
       THEN IF x.location \in missing
            THEN [S EXCEPT !.log = @ \cup {LogEntry("Verbose", "rebuilding block"),
                                           LogEntry("Error", "could not resolve block space to rebuild!")}]
            ELSE [S EXCEPT !.log = @ \cup {LogEntry("Verbose", "rebuilding block"),
                                           LogEntry("Verbose", "setting block type")},
                           !.world = MapSet(@, x.location, x.blockId),
                           !.restored[x.uid] = @ + 1,
                           !.blocks[i].remove = TRUE]
       ELSE S

\* RepairPass that sets the flag of every element it passes
RECURSIVE RepairPassFlagsAll(_, _, _, _)
RepairPassFlagsAll(S, i, timeNow, missing) ==
    IF i > Len(S.blocks) THEN S
    ELSE RepairPassFlagsAll([RepairElement(S, i, timeNow, missing) EXCEPT !.blocks[i].remove = TRUE],
                            i + 1, timeNow, missing)

RECURSIVE RepairPass(_, _, _, _)
RepairPass(S, i, timeNow, missing) ==
    IF i > Len(S.blocks) THEN S
    ELSE RepairPass(RepairElement(S, i, timeNow, missing), i + 1, timeNow, missing)

NotRemoved(x) == x.remove = FALSE

\* updateCallback without the filter
updateCallbackKeepsAll(S, timeNow, missing) == RepairPass(S, 1, timeNow, missing)

\* the callback update() schedules: the pass, then the filter
updateCallback(S, timeNow, missing) ==
    LET T == RepairPass(S, 1, timeNow, missing)
    IN [T EXCEPT !.blocks = SelectSeq(@, NotRemoved)]

-----------------------------------------------------------------------------
(* The scan for arena markers.  A scan sc holds the variables of one call   *)
(* of findArenasForLocation: location, radius, y_radius, batchSize, x, y,   *)
(* z, blocks_scanned, arenaBlocks; scheduled: how many times system.run     *)
(* holds its scanBatch; found: the arguments of its calls of onFound;       *)
(* visited: the positions it passed to getBlock, in order.                  *)

ArenaMarker == "scsmc:arena_marker"

\* the typeId of dim.getBlock(pos), "undefined" where no block resolves
BlockTypeId(w, missing, pos) ==
    IF pos \in missing THEN "undefined"
    ELSE IF pos \in DOMAIN w THEN w[pos] ELSE "minecraft:air"

\* ScanStep that starts each new row of z one past its first coordinate
ScanStepSkipsRowStart(sc, w, missing) ==
    LET pos == [x |-> Num(sc.location.x.v + sc.x),
                y |-> Num(sc.location.y.v + sc.y),
                z |-> Num(sc.location.z.v + sc.z)]
        hit == BlockTypeId(w, missing, pos) = ArenaMarker
        z1 == sc.z + 1
        wrapZ == z1 > sc.radius
        y1 == IF wrapZ THEN sc.y + 1 ELSE sc.y
        wrapY == wrapZ /\ y1 > sc.y_radius
    IN [sc EXCEPT !.arenaBlocks = IF hit THEN Append(@, pos) ELSE @,
                  !.visited = Append(@, pos),
                  !.blocks_scanned = @ + 1,
                  !.z = IF wrapZ THEN 1 - sc.radius ELSE z1,
                  !.y = IF wrapY THEN 0 - sc.y_radius ELSE y1,
                  !.x = IF wrapY THEN @ + 1 ELSE @]

\* one round of the while loop of scanBatch
ScanStep(sc, w, missing) ==
    LET pos == [x |-> Num(sc.location.x.v + sc.x),
                y |-> Num(sc.location.y.v + sc.y),
                z |-> Num(sc.location.z.v + sc.z)]
        hit == BlockTypeId(w, missing, pos) = ArenaMarker
        z1 == sc.z + 1
        wrapZ == z1 > sc.radius
        y1 == IF wrapZ THEN sc.y + 1 ELSE sc.y
        wrapY == wrapZ /\ y1 > sc.y_radius
    IN [sc EXCEPT !.arenaBlocks = IF hit THEN Append(@, pos) ELSE @,
                  !.visited = Append(@, pos),
                  !.blocks_scanned = @ + 1,
                  !.z = IF wrapZ THEN 0 - sc.radius ELSE z1,
                  !.y = IF wrapY THEN 0 - sc.y_radius ELSE y1,
                  !.x = IF wrapY THEN @ + 1 ELSE @]

\* ScanLoop that goes round once more than the batch size
RECURSIVE ScanLoopOneMore(_, _, _, _)
ScanLoopOneMore(sc, count, w, missing) ==
    IF count <= sc.batchSize /\ sc.x <= sc.radius
    THEN ScanLoopOneMore(ScanStep(sc, w, missing), count + 1, w, missing)
    ELSE sc

RECURSIVE ScanLoop(_, _, _, _)
ScanLoop(sc, count, w, missing) ==
    IF count < sc.batchSize /\ sc.x <= sc.radius
    THEN ScanLoop(ScanStep(sc, w, missing), count + 1, w, missing)
    ELSE sc

\* scanBatch that hands the hits to onFound at the end of every batch
scanBatchStreams(sc, w, missing) ==
    LET t == ScanLoop(sc, 0, w, missing)
    IN IF t.x <= t.radius
       THEN [t EXCEPT !.scheduled = @ + 1, !.found = Append(@, t.arenaBlocks)]
       ELSE [t EXCEPT !.found = Append(@, t.arenaBlocks)]

scanBatch(sc, w, missing) ==
    LET t == ScanLoop(sc, 0, w, missing)
    IN IF t.x <= t.radius
       THEN [t EXCEPT !.scheduled = @ + 1]
       ELSE [t EXCEPT !.found = Append(@, t.arenaBlocks)]

\* RunScheduledBatch with x, y and z held once for all the calls
RunScheduledBatchSharedCursor(S, c, w, missing) ==
    LET t == scanBatch([S[c] EXCEPT !.scheduled = @ - 1], w, missing)
    IN [d \in DOMAIN S |-> IF d = c THEN t ELSE [S[d] EXCEPT !.x = t.x, !.y = t.y, !.z = t.z]]

\* system.run takes a scanBatch that the call named c handed to it and runs
\* it: x, y, z, blocks_scanned and arenaBlocks are locals of that call, which
\* its scanBatch closes over
RunScheduledBatch(S, c, w, missing) ==
    [S EXCEPT ![c] = scanBatch([@ EXCEPT !.scheduled = @ - 1], w, missing)]

\* findArenasForLocation with z starting at the middle of the row
findArenasForLocationFromMidRow(location, radius, y_radius, batchSize, w, missing) ==
    scanBatch([location |-> location, radius |-> radius, y_radius |-> y_radius,
               batchSize |-> batchSize,
               x |-> 0 - radius, y |-> 0 - y_radius, z |-> 0,
               blocks_scanned |-> 0, arenaBlocks |-> <<>>,
               scheduled |-> 0, found |-> <<>>, visited |-> <<>>],
              w, missing)

\* findArenasForLocation: the variables at their first values, then the first batch
findArenasForLocation(location, radius, y_radius, batchSize, w, missing) ==
    scanBatch([location |-> location, radius |-> radius, y_radius |-> y_radius,
               batchSize |-> batchSize,
               x |-> 0 - radius, y |-> 0 - y_radius, z |-> 0 - radius,
               blocks_scanned |-> 0, arenaBlocks |-> <<>>,
               scheduled |-> 0, found |-> <<>>, visited |-> <<>>],
              w, missing)

ScanLog(sc) ==
    {LogEntry("Verbose", "blocks scanned")}
        \cup (IF sc.x <= sc.radius THEN {} ELSE {LogEntry("Verbose", "Scan complete")})

-----------------------------------------------------------------------------
(* Save and load.  W = [names, markers] are the world's dynamic properties. *)

\* `${x.location.x},${x.location.y},${x.location.z},`
MarkerString(marker) ==
    NumStr(marker.location.x) \o <<",">> \o NumStr(marker.location.y) \o <<",">>
        \o NumStr(marker.location.z) \o <<",">>

MarkersString(registry) == Join([i \in 1..Len(registry) |-> MarkerString(registry[i])], "#")

TagSet(tags) == {tags[i] : i \in 1..Len(tags)}

\* a tag of arenaTags with no marker array sets its property to undefined, which unsets it
saveAllToWorld(R, W) ==
    [names |-> <<Join(R.tags, "#")>>,
     markers |-> [t \in (DOMAIN W.markers \ TagSet(R.tags)) \cup (TagSet(R.tags) \cap DOMAIN R.markers) |->
                    IF t \in TagSet(R.tags) THEN MarkersString(R.markers[t]) ELSE W.markers[t]]]

ComponentAt(components, i) == IF i <= Len(components) THEN components[i] ELSE Undefined

\* the body of markers.forEach: the callback's parameter x is the marker
\* string, and it is x that is passed to registerArenaMarker as the tag
LoadMarker(R, markerString) ==
    LET fields == Split(markerString, ",")
        components == [i \in 1..Len(fields) |-> Number(fields[i])]
        vec == [x |-> ComponentAt(components, 1),
                y |-> ComponentAt(components, 2),
                z |-> ComponentAt(components, 3)]
    IN registerArenaMarker(R, markerString, vec, vectorKey(vec), FALSE)

RECURSIVE LoadMarkers(_, _, _)
LoadMarkers(R, markers, j) ==
    IF j > Len(markers) THEN R
    ELSE LoadMarkers(LoadMarker(R, markers[j]), markers, j + 1)

\* arenaTags.forEach over the n tags read from the world; a property that is
\* not set is undefined, and undefined.split throws
RECURSIVE LoadArenas(_, _, _, _)
LoadArenas(R, W, i, n) ==
    IF i > n THEN R
    ELSE LET x == R.tags[i]
         IN IF x \notin DOMAIN W.markers
            THEN [R EXCEPT !.thrown = TRUE]
            ELSE LoadArenas(updateBoundsForArena(LoadMarkers(R, Split(W.markers[x], "#"), 1), x),
                            W, i + 1, n)

loadAllFromWorld(R, W) ==
    IF W.names = <<>>
    THEN [R EXCEPT !.thrown = TRUE]
    ELSE LET arenas == Split(W.names[1], "#")
         IN LoadArenas([R EXCEPT !.tags = arenas], W, 1, Len(arenas))

-----------------------------------------------------------------------------
(* Inputs *)

TagA == <<"arena1">>
TagB == <<"arena2">>
Tags == {TagA, TagB}

Ids == {<<"a">>, <<"b">>}

Locations == {Vec(0, 0, 0), Vec(4, 0, 4), Vec(-1, 3, 2), Vec(2, -2, 5)}

\* the inputs of the specification with save and load
PersistLocations == {Vec(0, 0, 0), Vec(-1, 3, 2)}
PersistIds == {<<"a">>}

\* the inputs of the specification of the repair: the markers of the scenario
\* of two corners, the blocks broken inside and outside them
RepairMarkers == {[id |-> <<"a">>, location |-> Vec(0, 0, 0)], [id |-> <<"b">>, location |-> Vec(4, 0, 4)]}
BlockLocations == {Vec(2, 0, 2), Vec(5, 0, 0)}
BlockIds == {"minecraft:snow_block"}

\* the inputs of the specification of the scan: the worlds it starts in hold
\* arena markers at some of the marker spots and a block of another type; the
\* scan is run with radii up to MaxRadius and MaxYRadius in place of
\* CONSOLE_RADIUS and 6, and with these batch sizes in place of 200
ScanOrigins == {Vec(0, 0, 0), Vec(1, 0, 0)}
ScanMarkerSpots == {Vec(0, 0, 0), Vec(1, -1, 1), Vec(-1, 0, 1)}
ScanWorlds ==
    {[p \in S \cup {Vec(0, 1, 0)} |-> IF p \in S THEN ArenaMarker ELSE "minecraft:stone"] :
        S \in SUBSET ScanMarkerSpots}
ScanUnloaded == {{}, {Vec(-1, 0, 1)}}
ScanCalls == {"scan1"}

MaxRadius == 1
MaxYRadius == 1

\* the marker records a world may hold when the program starts: records as
\* saveAllToWorld writes them, and records with a field that is not a number
PersistedRecords ==
    {<<"0", ",", "0", ",", "0", ",">>,
     <<"-", "1", ",", "3", ",", "2", ",">>,
     <<"abc", ",", "0", ",", "0", ",">>,
     <<"1", ",", "1", "abc", ",", "2", ",">>}

PersistedMarkers ==
    PersistedRecords \cup {Join(<<r1, r2>>, "#") : r1, r2 \in PersistedRecords}

PairCalls == {"scan1", "scan2"}
PairBatchSizes == {2, 4}

RegionSize(radius, y_radius) == (2 * radius + 1) * (2 * radius + 1) * (2 * y_radius + 1)

BatchSizes(radius, y_radius) == {1, 2, 10, RegionSize(radius, y_radius)}

MaxEpoch == 1
MaxTracked == 2
MaxPending == 1
MaxQueued == 2

\* the values Date.now() takes: the multiples of the repair delay and the
\* millisecond after each, so that now - brokenAt is the delay, one more, or far from it
TimePoints == UNION {{e * repairDelay, e * repairDelay + 1} : e \in 0..MaxEpoch}

-----------------------------------------------------------------------------
(* State and actions *)

Registry ==
    [tags |-> arenaTags, markers |-> markerRegistry, bounds |-> arenaBounds,
     log |-> {}, thrown |-> FALSE]

WorldProps == [names |-> wpArenaNames, markers |-> wpArenaMarkers]

SetRegistry(R) ==
    /\ arenaTags' = R.tags
    /\ markerRegistry' = R.markers
    /\ arenaBounds' = R.bounds
    /\ logged' = R.log
    /\ thrown' = R.thrown

Init ==
    /\ arenaTags = <<>>
    /\ markerRegistry = EmptyMap
    /\ arenaBounds = EmptyMap
    /\ wpArenaNames = <<>>
    /\ wpArenaMarkers = EmptyMap
    /\ trackedBlocks = <<>>
    /\ restored = <<>>
    /\ pendingUpdates = 0
    /\ now = 0
    /\ world = EmptyMap
    /\ unloaded = {}
    /\ scans = EmptyMap
    /\ logged = {}
    /\ thrown = FALSE

\* registerArenaMarker(tag, location, id): updateBounds at its default
RegisterArenaMarker(tag, location, id) ==
    /\ SetRegistry(registerArenaMarker(Registry, tag, location, id, TRUE))
    /\ UNCHANGED <<worldVars, repairVars, envVars, scans>>

\* registerArenaMarker(tag, location, id, false)
RegisterArenaMarkerNoBounds(tag, location, id) ==
    /\ SetRegistry(registerArenaMarker(Registry, tag, location, id, FALSE))
    /\ UNCHANGED <<worldVars, repairVars, envVars, scans>>

RemoveArenaMarker(tag, id) ==
    /\ SetRegistry(removeArenaMarker(Registry, tag, id))
    /\ UNCHANGED <<worldVars, repairVars, envVars, scans>>

SaveAllToWorld ==
    /\ wpArenaNames' = saveAllToWorld(Registry, WorldProps).names
    /\ wpArenaMarkers' = saveAllToWorld(Registry, WorldProps).markers
    /\ logged' = {}
    /\ thrown' = FALSE
    /\ UNCHANGED <<regVars, repairVars, envVars, scans>>

LoadAllFromWorld ==
    /\ SetRegistry(loadAllFromWorld(Registry, WorldProps))
    /\ UNCHANGED <<worldVars, repairVars, envVars, scans>>

\* trackBlockBreak(block), block = [typeId, location]
TrackBlockBreak(block) ==
    LET pushed == trackBlockBreak(arenaBounds, block, now, Len(restored) + 1)
    IN /\ Len(restored) + Len(pushed) <= MaxTracked
       /\ trackedBlocks' = trackedBlocks \o pushed
       /\ restored' = restored \o [j \in 1..Len(pushed) |-> 0]
       /\ logged' = {LogEntry("Verbose", "checking block")}
                        \cup (IF pushed = <<>> THEN {} ELSE {LogEntry("Verbose", "tracking block!")})
       /\ thrown' = FALSE
       /\ UNCHANGED <<regVars, worldVars, pendingUpdates, envVars, scans>>

\* update(): schedules the callback when there are tracked blocks; system.run
\* holds at most limit callbacks
UpdateWithin(limit) ==
    /\ Len(trackedBlocks) > 0 => pendingUpdates < limit
    /\ pendingUpdates' = IF Len(trackedBlocks) > 0 THEN pendingUpdates + 1 ELSE pendingUpdates
    /\ logged' = {}
    /\ thrown' = FALSE
    /\ UNCHANGED <<regVars, worldVars, trackedBlocks, restored, envVars, scans>>

Update == UpdateWithin(MaxPending)

\* system.run runs a callback of update()
RunUpdateCallback ==
    LET S == updateCallback([blocks |-> trackedBlocks, world |-> world, restored |-> restored, log |-> {}],
                            now, unloaded)
    IN /\ pendingUpdates > 0
       /\ pendingUpdates' = pendingUpdates - 1
       /\ trackedBlocks' = S.blocks
       /\ world' = S.world
       /\ restored' = S.restored
       /\ logged' = S.log
       /\ thrown' = FALSE
       /\ UNCHANGED <<regVars, worldVars, now, unloaded, scans>>

\* the clock advances
Tick ==
    /\ \E t \in TimePoints : t > now /\ now' = t
    /\ logged' = {}
    /\ UNCHANGED <<regVars, worldVars, repairVars, world, unloaded, scans, thrown>>

\* a chunk is unloaded or loaded: getBlock at the location starts or stops returning undefined
SetLoaded(location) ==
    /\ unloaded' = IF location \in unloaded THEN unloaded \ {location} ELSE unloaded \cup {location}
    /\ logged' = {}
    /\ UNCHANGED <<regVars, worldVars, repairVars, now, world, scans, thrown>>

RegisterAny == \E tag \in Tags, location \in Locations, id \in Ids : RegisterArenaMarker(tag, location, id)

RemoveAny == \E tag \in Tags, id \in Ids : RemoveArenaMarker(tag, id)

NextRegistry == RegisterAny \/ RemoveAny

SpecRegistry == Init /\ [][NextRegistry]_vars

\* markers registered at two places with and without the update of the
\* bounds, and removed
RegisterBoundsRemove ==
    \E tag \in Tags, location \in PersistLocations, id \in Ids : RegisterArenaMarker(tag, location, id)

RegisterNoBoundsRemove ==
    \E tag \in Tags, location \in PersistLocations, id \in Ids :
        RegisterArenaMarkerNoBounds(tag, location, id)

NextRemove == RegisterBoundsRemove \/ RegisterNoBoundsRemove \/ RemoveAny

SpecRemove == Init /\ [][NextRemove]_vars

RegisterPersist ==
    \E tag \in Tags, location \in PersistLocations, id \in PersistIds : RegisterArenaMarker(tag, location, id)

RemovePersist == \E tag \in Tags, id \in PersistIds : RemoveArenaMarker(tag, id)

NextPersist == RegisterPersist \/ RemovePersist \/ SaveAllToWorld \/ LoadAllFromWorld

SpecPersist == Init /\ [][NextPersist]_vars

\* the program starts in a world that holds the arena names and marker
\* records of an earlier run, as they were written or damaged since
InitDecode ==
    /\ arenaTags = <<>>
    /\ markerRegistry = EmptyMap
    /\ arenaBounds = EmptyMap
    /\ wpArenaNames \in {<<TagA>>, <<Join(<<TagA, TagB>>, "#")>>}
    /\ \E m \in PersistedMarkers : wpArenaMarkers = [t \in TagSet(Split(wpArenaNames[1], "#")) |-> m]
    /\ trackedBlocks = <<>>
    /\ restored = <<>>
    /\ pendingUpdates = 0
    /\ now = 0
    /\ world = EmptyMap
    /\ unloaded = {}
    /\ scans = EmptyMap
    /\ logged = {}
    /\ thrown = FALSE

RemoveDecode == \E tag \in Tags, id \in PersistIds : RemoveArenaMarker(tag, id)

NextDecode == LoadAllFromWorld \/ SaveAllToWorld \/ RemoveDecode

SpecDecode == InitDecode /\ [][NextDecode]_vars

RegisterRepair == \E tag \in Tags, m \in RepairMarkers : RegisterArenaMarker(tag, m.location, m.id)

TrackAny == \E typeId \in BlockIds, location \in BlockLocations :
    TrackBlockBreak([typeId |-> typeId, location |-> location])

\* of the block locations, the one inside the corners is the one ever tracked
SetLoadedAny == \E location \in {Vec(2, 0, 2)} : SetLoaded(location)

NextRepair == RegisterRepair \/ TrackAny \/ Update \/ RunUpdateCallback \/ Tick \/ SetLoadedAny

SpecRepair == Init /\ [][NextRepair]_vars

RemoveRepair == \E tag \in Tags, m \in RepairMarkers : RemoveArenaMarker(tag, m.id)

\* arenas gain and lose markers while blocks are broken
NextTrack == RegisterRepair \/ RemoveRepair \/ TrackAny

SpecTrack == Init /\ [][NextTrack]_vars

\* one arena; update is called up to MaxQueued times before a callback of it
\* runs, and blocks are broken between the callbacks
RegisterQueued == \E m \in RepairMarkers : RegisterArenaMarker(TagA, m.location, m.id)

UpdateQueued == UpdateWithin(MaxQueued)

NextRepairQueued ==
    RegisterQueued \/ TrackAny \/ UpdateQueued \/ RunUpdateCallback \/ Tick \/ SetLoadedAny

SpecRepairQueued == Init /\ [][NextRepairQueued]_vars

\* the game calls update every tick, system.run runs every callback it was
\* handed, and the clock advances; blocks are broken and chunks are loaded and
\* unloaded as the players please
SpecRepairFair ==
    Init /\ [][NextRepair]_vars /\ WF_vars(Update) /\ WF_vars(RunUpdateCallback) /\ WF_vars(Tick)

\* findArenasForLocation(location), as the call named c
FindArenasForLocation(c, location, radius, y_radius, batchSize) ==
    LET sc == findArenasForLocation(location, radius, y_radius, batchSize, world, unloaded)
    IN /\ c \notin DOMAIN scans
       /\ scans' = MapSet(scans, c, sc)
       /\ logged' = {LogEntry("Verbose", "attempting to find attached arenas"),
                     LogEntry("Verbose", "This operation could take quite a long time")} \cup ScanLog(sc)
       /\ thrown' = FALSE
       /\ UNCHANGED <<regVars, worldVars, repairVars, envVars>>

\* system.run runs the scanBatch of the call named c
ScanBatch(c) ==
    /\ c \in DOMAIN scans
    /\ scans[c].scheduled > 0
    /\ scans' = RunScheduledBatch(scans, c, world, unloaded)
    /\ logged' = ScanLog(scans'[c])
    /\ thrown' = FALSE
    /\ UNCHANGED <<regVars, worldVars, repairVars, envVars>>

InitScan ==
    /\ arenaTags = <<>>
    /\ markerRegistry = EmptyMap
    /\ arenaBounds = EmptyMap
    /\ wpArenaNames = <<>>
    /\ wpArenaMarkers = EmptyMap
    /\ trackedBlocks = <<>>
    /\ restored = <<>>
    /\ pendingUpdates = 0
    /\ now = 0
    /\ world \in ScanWorlds
    /\ unloaded \in ScanUnloaded
    /\ scans = EmptyMap
    /\ logged = {}
    /\ thrown = FALSE

StartScan ==
    \E c \in ScanCalls, location \in ScanOrigins, radius \in 0..MaxRadius, y_radius \in 0..MaxYRadius :
        \E batchSize \in BatchSizes(radius, y_radius) :
            FindArenasForLocation(c, location, radius, y_radius, batchSize)

RunScanBatch == \E c \in ScanCalls : ScanBatch(c)

NextScan == StartScan \/ RunScanBatch

SpecScan == InitScan /\ [][NextScan]_vars

\* two calls of findArenasForLocation whose batches interleave: regions of
\* radius MaxRadius in one layer, around origins one block apart
StartScanPair ==
    \E c \in PairCalls, location \in ScanOrigins, batchSize \in PairBatchSizes :
        FindArenasForLocation(c, location, MaxRadius, 0, batchSize)

RunScanBatchPair == \E c \in PairCalls : ScanBatch(c)

NextScanPair == StartScanPair \/ RunScanBatchPair

SpecScanPair == InitScan /\ [][NextScanPair]_vars

-----------------------------------------------------------------------------
(* The registry claims *)

MarkersOf(tag) == IF tag \in DOMAIN markerRegistry THEN markerRegistry[tag] ELSE <<>>

LocationsOf(registry) == {registry[i].location : i \in 1..Len(registry)}

MinOf(S) == CHOOSE m \in S : \A n \in S : m <= n

MaxOf(S) == CHOOSE m \in S : \A n \in S : m >= n

\* the tightest axis-aligned box around a non-empty set of integer locations
TightestBox(L) ==
    [left   |-> Num(MinOf({l.x.v : l \in L})), right |-> Num(MaxOf({l.x.v : l \in L})),
     bottom |-> Num(MinOf({l.y.v : l \in L})), top   |-> Num(MaxOf({l.y.v : l \in L})),
     front  |-> Num(MinOf({l.z.v : l \in L})), back  |-> Num(MaxOf({l.z.v : l \in L}))]

InvalidBounds(b) == JsGt(b.left, b.right) /\ JsGt(b.bottom, b.top) /\ JsGt(b.front, b.back)

\* C1: under registerArenaMarker (updateBounds true) and removeArenaMarker, the
\* stored bounds of every known tag are the per-axis minimum and maximum of the
\* locations of its current markers, and the invalid sentinel (min > max on
\* every axis) when it has no markers.
C1_BoundsAreTightestBox ==
    \A i \in 1..Len(arenaTags) :
        LET tag == arenaTags[i]
            L == LocationsOf(MarkersOf(tag))
        IN /\ tag \in DOMAIN arenaBounds
           /\ IF L = {} THEN InvalidBounds(arenaBounds[tag])
              ELSE arenaBounds[tag] = TightestBox(L)

C1_Witness ==
    /\ TagA \in DOMAIN markerRegistry
    /\ TagB \in DOMAIN markerRegistry
    /\ Len(markerRegistry[TagA]) = 2
    /\ markerRegistry[TagA][1].location # markerRegistry[TagA][2].location
    /\ arenaBounds[TagA].bottom # arenaBounds[TagA].top
    /\ markerRegistry[TagB] = <<>>
    /\ TagB \in DOMAIN arenaBounds

HasId(registry, id) == \E i \in 1..Len(registry) : registry[i].id = id

UniqueIds(registry) ==
    \A i, j \in 1..Len(registry) : registry[i].id = registry[j].id => i = j

\* what a registration of (tag, location, id) must do to the marker sets
UpsertEffect(tag, location, id) ==
    LET before == MarkersOf(tag)
        after == markerRegistry'[tag]
    IN /\ HasId(before, id) =>
            /\ Len(after) = Len(before)
            /\ \A i \in 1..Len(before) :
                /\ after[i].id = before[i].id
                /\ after[i].location = IF before[i].id = id THEN location ELSE before[i].location
       /\ ~HasId(before, id) =>
            /\ Len(after) = Len(before) + 1
            /\ SubSeq(after, 1, Len(before)) = before
            /\ after[Len(after)].id = id
            /\ after[Len(after)].location = location
       /\ \A t \in DOMAIN markerRegistry \ {tag} :
            t \in DOMAIN markerRegistry' /\ markerRegistry'[t] = markerRegistry[t]

\* C9: registerArenaMarker is an upsert by id within a tag: no marker set ever
\* holds two markers with the same id; registering an id already present
\* overwrites that marker's location and keeps the number of markers, a new id
\* adds exactly one marker, and the markers of other tags are not changed.
C9_UpsertById ==
    /\ [](\A t \in DOMAIN markerRegistry : UniqueIds(markerRegistry[t]))
    /\ [][\A tag \in Tags, location \in Locations, id \in Ids :
            RegisterArenaMarker(tag, location, id) => UpsertEffect(tag, location, id)]_vars

C9_Witness ==
    /\ TagA \in DOMAIN markerRegistry
    /\ TagB \in DOMAIN markerRegistry
    /\ Len(markerRegistry[TagA]) = 2
    /\ Len(markerRegistry[TagB]) = 2
    /\ markerRegistry[TagA][1].location = markerRegistry[TagA][2].location
    /\ LogEntry("Verbose", "registering marker") \in logged

\* C10: removeArenaMarker with a tag that is not registered logs at Warning
\* level and leaves the tag list, the marker sets and the bounds unchanged.
C10_RemoveUnknownTagWarns ==
    [][\A tag \in Tags, id \in Ids :
        (~Includes(arenaTags, tag) /\ RemoveArenaMarker(tag, id)) =>
            /\ \E e \in logged' : e.level = "Warning"
            /\ UNCHANGED <<arenaTags, markerRegistry, arenaBounds>>]_vars

Elements(s) == {s[i] : i \in 1..Len(s)}

\* the box of the markers: the tightest one, the sentinel of newBounds when there are none
BoxOf(registry) ==
    IF LocationsOf(registry) = {} THEN newBounds ELSE TightestBox(LocationsOf(registry))

\* what removeArenaMarker(tag, id) of a known tag must do
RemoveEffect(tag, id) ==
    LET before == MarkersOf(tag)
        after == markerRegistry'[tag]
    IN /\ Elements(after) = {m \in Elements(before) : m.id # id}
       /\ Len(after) = IF HasId(before, id) THEN Len(before) - 1 ELSE Len(before)
       /\ ~HasId(before, id) => after = before
       /\ \A i, j \in 1..Len(after) : i < j =>
            \E k, l \in 1..Len(before) : k < l /\ before[k] = after[i] /\ before[l] = after[j]
       /\ DOMAIN markerRegistry' = DOMAIN markerRegistry
       /\ \A t \in DOMAIN markerRegistry \ {tag} : markerRegistry'[t] = markerRegistry[t]
       /\ arenaTags' = arenaTags
       /\ ~thrown'
       /\ \A e \in logged' : e.level \notin {"Warning", "Error"}
       /\ DOMAIN arenaBounds' = DOMAIN arenaBounds \cup {tag}
       /\ arenaBounds'[tag] = BoxOf(after)
       /\ \A t \in DOMAIN arenaBounds \ {tag} : arenaBounds'[t] = arenaBounds[t]

\* the stored bounds of the tag are not the box of its markers, or there are none stored
StaleBounds(tag) ==
    tag \in DOMAIN markerRegistry /\ (tag \in DOMAIN arenaBounds => arenaBounds[tag] # BoxOf(markerRegistry[tag]))

\* C18: removeArenaMarker(tag, id) of a known tag removes the marker with
\* that id when there is one and leaves the other markers of the tag, in
\* their order, and the markers of the other tags as they were; when there is
\* none the markers are unchanged and nothing is thrown or logged as an
\* error; either way the stored bounds of the tag become the box of its
\* markers after the removal, also when they were stale before.
C18_RemoveByIdAndRecompute ==
    [][\A tag \in Tags, id \in Ids :
        (Includes(arenaTags, tag) /\ RemoveArenaMarker(tag, id)) => RemoveEffect(tag, id)]_vars

\* the last step was a removeArenaMarker of a known tag: it left one marker
\* of two, with the bounds of that marker, while the bounds of the other
\* arena, registered without the update of the bounds, are still stale
C18_Witness ==
    /\ logged = {}
    /\ DOMAIN markerRegistry = Tags
    /\ \E tag \in Tags :
        /\ Len(markerRegistry[tag]) = 1
        /\ markerRegistry[tag][1].location # Vec(0, 0, 0)
        /\ tag \in DOMAIN arenaBounds
        /\ arenaBounds[tag] = BoxOf(markerRegistry[tag])
        /\ \E other \in Tags \ {tag} : Len(markerRegistry[other]) = 2 /\ StaleBounds(other)

-----------------------------------------------------------------------------
(* The save and load claims *)

\* C2: under registerArenaMarker, removeArenaMarker, saveAllToWorld and
\* loadAllFromWorld, every marker held in the registry under a tag has bounds
\* stored for that tag, and its own location is inside them.
C2_MarkersInsideBounds ==
    \A tag \in DOMAIN markerRegistry :
        \A i \in 1..Len(markerRegistry[tag]) :
            /\ tag \in DOMAIN arenaBounds
            /\ inBounds(arenaBounds[tag], markerRegistry[tag][i].location)

EmptyRegistry ==
    [tags |-> <<>>, markers |-> EmptyMap, bounds |-> EmptyMap, log |-> {}, thrown |-> FALSE]

CountOf(registry, location) == Cardinality({i \in 1..Len(registry) : registry[i].location = location})

SameCoordinates(before, after) ==
    \A location \in LocationsOf(before) \cup LocationsOf(after) :
        CountOf(before, location) = CountOf(after, location)

\* the registry R holds the tags and, by tag, the marker coordinates of the current one
SameArenas(R) ==
    /\ TagSet(R.tags) = TagSet(arenaTags)
    /\ \A tag \in TagSet(arenaTags) :
        /\ tag \in DOMAIN R.markers
        /\ SameCoordinates(MarkersOf(tag), R.markers[tag])

\* C3: saveAllToWorld and then loadAllFromWorld, into a fresh registry or into
\* the same one, gives back the same set of tags and, by tag, the same
\* multiset of marker coordinates.  Stated of the registries in which every
\* arena has a marker.
C3_SaveLoadRoundTrip ==
    (/\ arenaTags # <<>>
     /\ \A tag \in TagSet(arenaTags) : MarkersOf(tag) # <<>>)
    => LET W == saveAllToWorld(Registry, WorldProps)
       IN /\ SameArenas(loadAllFromWorld(EmptyRegistry, W))
          /\ SameArenas(loadAllFromWorld(Registry, W))

-----------------------------------------------------------------------------
(* The repair claims *)

PendingUids(blocks) == {blocks[i].uid : i \in 1..Len(blocks)}

Elapsed(x, timeNow) == timeNow - x.brokenAt > x.rebuildDelay

C5_UnresolvedIsDropped ==
    [][RunUpdateCallback =>
        \A i \in 1..Len(trackedBlocks) :
            LET x == trackedBlocks[i]
            IN (Elapsed(x, now) /\ x.location \in unloaded) =>
                /\ \E e \in logged' : e.level = "Error"
                /\ x.uid \notin PendingUids(trackedBlocks')]_vars

\* the bounds hold the point: they are a box of numbers, and the point is
\* within it on the three axes
BoxHolds(b, p) ==
    /\ \A f \in {"left", "right", "bottom", "top", "front", "back"} : b[f].k = "num"
    /\ b.left.v <= p.x.v /\ p.x.v <= b.right.v
    /\ b.bottom.v <= p.y.v /\ p.y.v <= b.top.v
    /\ b.front.v <= p.z.v /\ p.z.v <= b.back.v

\* what trackBlockBreak of a block of this type at this location must push
TrackEffect(typeId, location) ==
    LET k == Cardinality({t \in DOMAIN arenaBounds : BoxHolds(arenaBounds[t], location)})
        n == Len(trackedBlocks)
    IN /\ Len(trackedBlocks') = n + k
       /\ SubSeq(trackedBlocks', 1, n) = trackedBlocks
       /\ \A j \in (n + 1)..(n + k) :
            /\ trackedBlocks'[j].blockId = typeId
            /\ trackedBlocks'[j].location = location
            /\ trackedBlocks'[j].brokenAt = now
            /\ trackedBlocks'[j].rebuildDelay = 10000
            /\ trackedBlocks'[j].remove = FALSE

\* C8: trackBlockBreak appends exactly one tracked element {type, location,
\* current time, default delay, remove = false} for each arena whose stored
\* bounds hold the block's location, none when no arena does, and leaves the
\* pending elements as they were.
C8_OneElementPerArena ==
    [][\A typeId \in BlockIds, location \in BlockLocations :
        TrackBlockBreak([typeId |-> typeId, location |-> location]) => TrackEffect(typeId, location)]_vars

\* two overlapping arenas gave two elements for one broken block
C8_Witness ==
    /\ Len(trackedBlocks) = 2
    /\ trackedBlocks[1].brokenAt = now
    /\ trackedBlocks[2].brokenAt = now
    /\ now > 0
    /\ trackedBlocks[1].location = trackedBlocks[2].location
    /\ Cardinality(ArenasInBounds(arenaBounds, trackedBlocks[1].location)) = 2
    /\ LogEntry("Verbose", "tracking block!") \in logged

\* the tracked block uid is pending, and the clock reaches a time at which its delay has elapsed
PendingAndDue(uid) ==
    \E i \in 1..Len(trackedBlocks) :
        /\ trackedBlocks[i].uid = uid
        /\ \E t \in TimePoints : Elapsed(trackedBlocks[i], t)

\* C13: when update is called every turn, every scheduled callback runs and
\* the clock keeps advancing, every tracked block leaves the pending set,
\* whether a block resolves at its location or not: none stays pending forever.
C13_EveryElementLeavesPending ==
    \A uid \in 1..MaxTracked : [](PendingAndDue(uid) => <>(uid \notin PendingUids(trackedBlocks)))

\* the tracked blocks as the forEach of a pass run now leaves them, before the filter
AfterPass ==
    RepairPass([blocks |-> trackedBlocks, world |-> world, restored |-> restored, log |-> {}],
               1, now, unloaded).blocks

\* C14: between turns every element of the pending set has remove = false;
\* an element whose flag a pass sets is not in the pending set when that
\* pass ends, and one whose flag it does not set still is, with the flag false.
C14_RemoveFalseWhilePending ==
    /\ [](\A i \in 1..Len(trackedBlocks) : trackedBlocks[i].remove = FALSE)
    /\ [][RunUpdateCallback =>
            \A i \in 1..Len(AfterPass) :
                IF AfterPass[i].remove
                THEN AfterPass[i].uid \notin PendingUids(trackedBlocks')
                ELSE \E j \in 1..Len(trackedBlocks') :
                        trackedBlocks'[j] = trackedBlocks[i] /\ trackedBlocks'[j].remove = FALSE]_vars

\* a pass has set the flag of one element and dropped it, and left another, whose
\* delay had not elapsed, pending
C14_Witness ==
    /\ LogEntry("Verbose", "setting block type") \in logged
    /\ \E uid \in 1..Len(restored) : restored[uid] = 1 /\ uid \notin PendingUids(trackedBlocks)
    /\ \E i \in 1..Len(trackedBlocks) :
        /\ trackedBlocks[i].remove = FALSE
        /\ ~Elapsed(trackedBlocks[i], now)

\* points to test the bounds with: the marker and block locations, and a point at infinity
TestPoints ==
    Locations \cup BlockLocations \cup {[x |-> PosInfinity, y |-> PosInfinity, z |-> PosInfinity]}

HasMarkers(tag) == MarkersOf(tag) # <<>>

\* C15: an arena with no markers has the inverted sentinel as its bounds,
\* inBounds of those bounds is false of every point, and trackBlockBreak
\* pushes no element for it: it pushes one element for each arena that has
\* markers around the block, and nothing else.
C15_EmptyArenaTracksNothing ==
    /\ [](\A tag \in DOMAIN arenaBounds :
            ~HasMarkers(tag) =>
                /\ arenaBounds[tag] = newBounds
                /\ InvalidBounds(arenaBounds[tag])
                /\ \A p \in TestPoints : ~inBounds(arenaBounds[tag], p))
    /\ [][\A typeId \in BlockIds, location \in BlockLocations :
            TrackBlockBreak([typeId |-> typeId, location |-> location]) =>
                Len(trackedBlocks') - Len(trackedBlocks) =
                    Cardinality({tag \in DOMAIN arenaBounds :
                                    HasMarkers(tag) /\ BoxHolds(arenaBounds[tag], location)})]_vars

\* a block inside one arena's corners was tracked once; the other arena has
\* lost its markers since, and the last trackBlockBreak of a block at the same
\* place tracked it for the one arena alone
C15_Witness ==
    /\ DOMAIN markerRegistry = Tags
    /\ \E tag \in Tags : ~HasMarkers(tag) /\ tag \in DOMAIN arenaBounds
    /\ \E tag \in Tags : HasMarkers(tag) /\ BoxHolds(arenaBounds[tag], Vec(2, 0, 2))
    /\ Len(trackedBlocks) = 1
    /\ trackedBlocks[1].location = Vec(2, 0, 2)
    /\ LogEntry("Verbose", "tracking block!") \in logged

\* the pending element of the tracked block uid
PendingElement(uid) == trackedBlocks[CHOOSE i \in 1..Len(trackedBlocks) : trackedBlocks[i].uid = uid]

\* C20: with several callbacks of update scheduled at once and blocks
\* tracked between their runs, no tracked block is restored twice and none is
\* lost: a tracked block is pending or was restored once, never neither; it
\* is in the pending set once only; and it leaves the pending set only by a
\* pass that runs with its delay elapsed and restores it.
C20_QueuedPassesRestoreOnce ==
    /\ [](\A uid \in 1..Len(restored) :
            /\ restored[uid] <= 1
            /\ restored[uid] = 0 <=> uid \in PendingUids(trackedBlocks)
            /\ Cardinality({i \in 1..Len(trackedBlocks) : trackedBlocks[i].uid = uid}) <= 1)
    /\ [][\A uid \in PendingUids(trackedBlocks) :
            uid \notin PendingUids(trackedBlocks') =>
                /\ pendingUpdates' = pendingUpdates - 1
                /\ Elapsed(PendingElement(uid), now)
                /\ restored'[uid] = 1]_vars

\* of two callbacks scheduled at once one has run and restored the first
\* tracked block; the second, tracked at that time, is pending and the other
\* callback is still to run
C20_Witness ==
    /\ pendingUpdates >= 1
    /\ LogEntry("Verbose", "setting block type") \in logged
    /\ Len(restored) = 2
    /\ restored[1] = 1
    /\ PendingUids(trackedBlocks) = {2}
    /\ trackedBlocks[1].brokenAt = now

-----------------------------------------------------------------------------
(* The scan claims *)

\* the coordinates origin + (dx, dy, dz), dx and dz within the radius, dy within the y radius
Region(sc) ==
    {[x |-> Num(sc.location.x.v + dx), y |-> Num(sc.location.y.v + dy), z |-> Num(sc.location.z.v + dz)] :
        dx \in (0 - sc.radius)..sc.radius, dy \in (0 - sc.y_radius)..sc.y_radius,
        dz \in (0 - sc.radius)..sc.radius}

\* the coordinates of the region at which the world has a block of the arena marker type
MarkersIn(sc) == {p \in Region(sc) : p \notin unloaded /\ p \in DOMAIN world /\ world[p] = ArenaMarker}

NoRepeat(s) == \A i, j \in 1..Len(s) : s[i] = s[j] => i = j

ScanDone(sc) == sc.x > sc.radius

\* C6: a scan queries every coordinate of its region exactly once over all its
\* batches, (2R+1)^2 * (2Yv+1) coordinates in all, and its hit list is
\* exactly the coordinates of the region whose block is an arena marker, each
\* once, whatever the batch size.
C6_ScanVisitsRegionOnce ==
    \A c \in DOMAIN scans :
        LET sc == scans[c]
        IN /\ NoRepeat(sc.visited)
           /\ NoRepeat(sc.arenaBlocks)
           /\ Elements(sc.visited) \subseteq Region(sc)
           /\ Elements(sc.arenaBlocks) = Elements(sc.visited) \cap MarkersIn(sc)
           /\ ScanDone(sc) =>
                /\ Len(sc.visited) = (2 * sc.radius + 1) * (2 * sc.radius + 1) * (2 * sc.y_radius + 1)
                /\ sc.blocks_scanned = Len(sc.visited)
                /\ Elements(sc.visited) = Region(sc)
                /\ Elements(sc.arenaBlocks) = MarkersIn(sc)

\* a scan of the largest region, in batches of two, has ended with hits and misses
C6_Witness ==
    \E c \in DOMAIN scans :
        /\ ScanDone(scans[c])
        /\ scans[c].radius = MaxRadius
        /\ scans[c].y_radius = MaxYRadius
        /\ scans[c].batchSize = 2
        /\ Len(scans[c].arenaBlocks) = 2
        /\ unloaded # {}

\* C7: onFound is invoked exactly once for a scan, only when the whole region
\* has been visited, with the complete hit list; a batch that leaves
\* coordinates unvisited does not invoke it, and no batch runs after it.
\* A scan is waiting for its next batch or has invoked onFound, and every
\* batch visits at least one more coordinate of the region.
C7_OnFoundOnceAtTheEnd ==
    /\ [](\A c \in DOMAIN scans :
            LET sc == scans[c]
            IN /\ Len(sc.found) <= 1
               /\ Len(sc.found) = 1 <=> Elements(sc.visited) = Region(sc)
               /\ Len(sc.found) = 1 => sc.found[1] = sc.arenaBlocks /\ Elements(sc.found[1]) = MarkersIn(sc)
               /\ Len(sc.found) = 1 <=> sc.scheduled = 0)
    /\ [][\A c \in DOMAIN scans : Len(scans[c].found) = 1 => scans'[c] = scans[c]]_vars
    /\ [][\A c \in DOMAIN scans : scans'[c] # scans[c] =>
            /\ scans[c].scheduled > 0
            /\ Len(scans'[c].visited) > Len(scans[c].visited)]_vars

\* onFound was invoked after several batches
C7_Witness ==
    \E c \in DOMAIN scans :
        /\ Len(scans[c].found) = 1
        /\ scans[c].scheduled = 0
        /\ scans[c].batchSize = 1
        /\ scans[c].blocks_scanned > 1
        /\ scans[c].found[1] # <<>>

IsPrefix(s, t) == Len(s) <= Len(t) /\ SubSeq(t, 1, Len(s)) = s

\* the offsets of the n-th coordinate (from 0) of the region in the order
\* x, then y, then z: z runs fastest
OffsetsAt(sc, n) ==
    LET W == 2 * sc.radius + 1
        H == 2 * sc.y_radius + 1
    IN [x |-> (n \div (W * H)) - sc.radius,
        y |-> ((n \div W) % H) - sc.y_radius,
        z |-> (n % W) - sc.radius]

CoordinateAt(sc, n) ==
    [x |-> Num(sc.location.x.v + OffsetsAt(sc, n).x),
     y |-> Num(sc.location.y.v + OffsetsAt(sc, n).y),
     z |-> Num(sc.location.z.v + OffsetsAt(sc, n).z)]

\* a comes before b in the lexicographic order on (x, y, z)
LexLess(a, b) ==
    \/ a.x.v < b.x.v
    \/ a.x.v = b.x.v /\ a.y.v < b.y.v
    \/ a.x.v = b.x.v /\ a.y.v = b.y.v /\ a.z.v < b.z.v

\* C16: the coordinates a scan has visited, over all its batches, are the
\* first ones of its region in the lexicographic order on (x, y, z), from
\* (-R, -Yv, -R): the z offset advances fastest, then y, then x; the cursor is
\* at the coordinate that follows the last one visited, and a batch adds to
\* the end of what was visited.
C16_ScanOrder ==
    /\ [](\A c \in DOMAIN scans :
            LET sc == scans[c]
                n == Len(sc.visited)
            IN /\ \A i \in 1..n : sc.visited[i] = CoordinateAt(sc, i - 1)
               /\ \A i \in 1..(n - 1) : LexLess(sc.visited[i], sc.visited[i + 1])
               /\ n > 0 => sc.visited[1] = [x |-> Num(sc.location.x.v - sc.radius),
                                            y |-> Num(sc.location.y.v - sc.y_radius),
                                            z |-> Num(sc.location.z.v - sc.radius)]
               /\ <<sc.x, sc.y, sc.z>> = <<OffsetsAt(sc, n).x, OffsetsAt(sc, n).y, OffsetsAt(sc, n).z>>)
    /\ [][\A c \in DOMAIN scans : IsPrefix(scans[c].visited, scans'[c].visited)]_vars

\* a scan of the largest region is between two batches, past the first x
\* offset and in the middle of a row of z
C16_Witness ==
    \E c \in DOMAIN scans :
        /\ scans[c].scheduled > 0
        /\ scans[c].radius = MaxRadius
        /\ scans[c].y_radius = MaxYRadius
        /\ scans[c].x > 0 - scans[c].radius
        /\ scans[c].z > 0 - scans[c].radius
        /\ scans[c].blocks_scanned > scans[c].batchSize

\* what the call named c had queried, and what system.run held for it, before the step
VisitedBefore(c) == IF c \in DOMAIN scans THEN Len(scans[c].visited) ELSE 0

HeldBefore(c) == IF c \in DOMAIN scans THEN scans[c].scheduled - 1 ELSE 0

MinOfTwo(a, b) == IF a < b THEN a ELSE b

\* C17: in one turn (the call of findArenasForLocation, or one scheduled run
\* of scanBatch) a scan queries at most batchSize coordinates: batchSize of
\* them, or the ones left when fewer are left; a batch that leaves coordinates
\* unvisited calls system.run exactly once, one that exhausts the region does
\* not call it, and never is more than one batch of a scan scheduled.
C17_BatchBoundedAndRescheduled ==
    /\ [](\A c \in DOMAIN scans :
            /\ scans[c].scheduled \in {0, 1}
            /\ scans[c].scheduled = 1 <=> Elements(scans[c].visited) # Region(scans[c]))
    /\ [][\A c \in DOMAIN scans' :
            (c \notin DOMAIN scans \/ scans'[c] # scans[c]) =>
                LET sc == scans'[c]
                    queried == Len(sc.visited) - VisitedBefore(c)
                    left == Cardinality(Region(sc)) - VisitedBefore(c)
                    runCalls == sc.scheduled - HeldBefore(c)
                IN /\ queried <= sc.batchSize
                   /\ queried = MinOfTwo(sc.batchSize, left)
                   /\ runCalls = IF left > sc.batchSize THEN 1 ELSE 0]_vars

\* a scan of the largest region in batches of ten has ended: its last batch
\* was a short one, and scheduled none
C17_Witness ==
    \E c \in DOMAIN scans :
        /\ scans[c].radius = MaxRadius
        /\ scans[c].y_radius = MaxYRadius
        /\ scans[c].batchSize = 10
        /\ scans[c].scheduled = 0
        /\ scans[c].blocks_scanned > scans[c].batchSize
        /\ scans[c].blocks_scanned % scans[c].batchSize # 0

\* the scan of the same location, radii and batch size when it is the only one
RECURSIVE RunAlone(_)
RunAlone(sc) ==
    IF sc.scheduled > 0
    THEN RunAlone(scanBatch([sc EXCEPT !.scheduled = @ - 1], world, unloaded))
    ELSE sc

ScanAlone(sc) ==
    RunAlone(findArenasForLocation(sc.location, sc.radius, sc.y_radius, sc.batchSize, world, unloaded))

\* C11: two scans whose batches interleave do not affect each other: a batch
\* of one leaves the cursor and the hit list of the other as they were; each
\* scan is at every moment a prefix of the scan it would be alone, visits its
\* own region once, and hands onFound the hit list it would hand it alone.
C11_ScansDoNotInterfere ==
    /\ [](\A c \in DOMAIN scans :
            LET sc == scans[c]
                alone == ScanAlone(sc)
            IN /\ IsPrefix(sc.visited, alone.visited)
               /\ IsPrefix(sc.arenaBlocks, alone.arenaBlocks)
               /\ NoRepeat(sc.visited)
               /\ sc.scheduled = 0 =>
                    /\ sc.found = alone.found
                    /\ Len(sc.found) = 1
                    /\ sc.visited = alone.visited
                    /\ Elements(sc.visited) = Region(sc)
                    /\ Elements(sc.found[1]) = MarkersIn(sc))
    /\ [][\A c \in PairCalls : ScanBatch(c) =>
            \A d \in DOMAIN scans \ {c} : scans'[d] = scans[d]]_vars

\* both scans are under way, each after a batch run by the scheduler, at
\* different cursors and with a hit each
C11_Witness ==
    /\ DOMAIN scans = PairCalls
    /\ \A c \in PairCalls :
        /\ scans[c].scheduled > 0
        /\ scans[c].blocks_scanned >= 2 * scans[c].batchSize
        /\ scans[c].arenaBlocks # <<>>
    /\ scans["scan1"].location # scans["scan2"].location
    /\ <<scans["scan1"].x, scans["scan1"].z>> # <<scans["scan2"].x, scans["scan2"].z>>

-----------------------------------------------------------------------------
(* The decoding claims *)

\* the marker records loadAllFromWorld reads from W: those of the properties
\* of the tags named in the arena names
RecordsRead(W) ==
    IF W.names = <<>> THEN {}
    ELSE UNION {Elements(Split(W.markers[t], "#")) :
                    t \in TagSet(Split(W.names[1], "#")) \cap DOMAIN W.markers}

\* one of the three coordinate fields of the record is there and is not a number
Malformed(record) ==
    LET fields == Split(record, ",")
    IN \E i \in 1..3 : i <= Len(fields) /\ Number(fields[i]) = NaN

HasNaN(location) == NaN \in {location.x, location.y, location.z}

\* the markers held with a coordinate that is NaN, with the tag that holds them
NaNMarkers(markers) ==
    UNION {{<<t, m>> : m \in {n \in Elements(markers[t]) : HasNaN(n.location)}} : t \in DOMAIN markers}

\* C12: when loadAllFromWorld reads a marker record with a coordinate field
\* that is not a number, the load ends by throwing and registers no marker
\* with such a coordinate.
C12_MalformedRecordAbortsLoad ==
    [][(LoadAllFromWorld /\ \E record \in RecordsRead(WorldProps) : Malformed(record)) =>
            /\ thrown'
            /\ NaNMarkers(markerRegistry') \subseteq NaNMarkers(markerRegistry)]_vars

\* C19: under registerArenaMarker, removeArenaMarker and loadAllFromWorld the
\* tag list holds no tag twice, and every tag of the tag list has a marker
\* set in the marker registry.
C19_TagsUniqueAndRegistered ==
    /\ \A i, j \in 1..Len(arenaTags) : arenaTags[i] = arenaTags[j] => i = j
    /\ \A i \in 1..Len(arenaTags) : arenaTags[i] \in DOMAIN markerRegistry

====
